---- MODULE Spec2Model ----
(***************************************************************************)
(* mutemath: the classifier (package core) and the poll / retry control    *)
(* loop (main.go, github.go).                                               *)
(*                                                                         *)
(* Strings that the code compares character by character (logins, org      *)
(* names, header values, URLs) are sequences of atoms; an atom is one      *)
(* character, or one run of characters that holds no "/" and that the code *)
(* never looks into.  Strings the code only compares for equality with a   *)
(* literal (reason, subject type, thread id) are TLA+ strings.             *)
(* Subject.Title and Repository.FullName only reach the Format* functions  *)
(* and are left out of the records.                                        *)
(***************************************************************************)
EXTENDS Integers, Sequences, FiniteSets, TLC

\* ------------------------------------------------------------------ strings

\* Go's "" as a sequence of atoms.
EmptyStr == << >>

\* unicode.SimpleFold restricted to the letters the model uses.
Fold(c) ==
    CASE c = "A" -> "a"
      [] c = "E" -> "e"
      [] c = "M" -> "m"
      [] c = "O" -> "o"
      [] c = "P" -> "p"
      [] OTHER -> c

\* strings.EqualFold
EqualFold(s, t) ==
    /\ Len(s) = Len(t)
    /\ \A i \in 1..Len(s) : Fold(s[i]) = Fold(t[i])

\* strings.HasPrefix
HasPrefix(s, p) ==
    /\ Len(s) >= Len(p)
    /\ SubSeq(s, 1, Len(p)) = p

\* strings.TrimPrefix, used after HasPrefix succeeded
TrimPrefix(s, p) == IF HasPrefix(s, p) THEN SubSeq(s, Len(p) + 1, Len(s)) ELSE s

\* strings.Split(s, "/"): the segments between the separators, in order.
RECURSIVE SplitFrom(_, _, _)
SplitFrom(s, i, cur) ==
    IF i > Len(s) THEN << cur >>
    ELSE IF s[i] = "/" THEN << cur >> \o SplitFrom(s, i + 1, << >>)
    ELSE SplitFrom(s, i + 1, Append(cur, s[i]))

Split(s) == SplitFrom(s, 1, << >>)

Digits == {"0", "1", "2", "3", "4", "5", "6", "7", "8", "9"}

DigitVal(c) ==
    CASE c = "0" -> 0 [] c = "1" -> 1 [] c = "2" -> 2 [] c = "3" -> 3
      [] c = "4" -> 4 [] c = "5" -> 5 [] c = "6" -> 6 [] c = "7" -> 7
      [] c = "8" -> 8 [] c = "9" -> 9

RECURSIVE DigitsVal(_, _)
DigitsVal(s, acc) ==
    IF s = << >> THEN acc ELSE DigitsVal(Tail(s), acc * 10 + DigitVal(Head(s)))

\* strconv.Atoi: an optional sign, then one or more decimal digits.
Atoi(s) ==
    LET signed == s # << >> /\ Head(s) \in {"+", "-"}
        body   == IF signed THEN Tail(s) ELSE s
        ok     == body # << >> /\ \A i \in 1..Len(body) : body[i] \in Digits
        mag    == IF ok THEN DigitsVal(body, 0) ELSE 0
    IN [ok  |-> ok,
        val |-> IF signed /\ Head(s) = "-" THEN 0 - mag ELSE mag]

\* ------------------------------------------------------------- package core

ActionSkip == 0
ActionKeep == 1
ActionMute == 2

\* const prefix = "https://api.github.com/repos/"
prefix == << "https:", "/", "/", "api.github.com", "/", "repos", "/" >>

ParseSubjectURL(url) ==
    IF ~HasPrefix(url, prefix)
    THEN [err |-> TRUE, Owner |-> << >>, Repo |-> << >>, Number |-> 0]
    ELSE LET parts == Split(TrimPrefix(url, prefix)) IN
         IF Len(parts) # 4 \/ parts[3] # << "pulls" >>
         THEN [err |-> TRUE, Owner |-> << >>, Repo |-> << >>, Number |-> 0]
         ELSE LET number == Atoi(parts[4]) IN
              IF ~number.ok
              THEN [err |-> TRUE, Owner |-> << >>, Repo |-> << >>, Number |-> 0]
              ELSE [err |-> FALSE, Owner |-> parts[1], Repo |-> parts[2],
                    Number |-> number.val]

\* MatchesOrgFilter with the exclude filter compared case-sensitively.
MatchesOrgFilter_ExactExclude(n, c) ==
    LET org == n.Repository.Owner IN
    IF c.IncludeOrg # EmptyStr /\ ~EqualFold(org, c.IncludeOrg) THEN FALSE
    ELSE IF c.ExcludeOrg # EmptyStr /\ org = c.ExcludeOrg THEN FALSE
    ELSE TRUE

MatchesOrgFilter(n, c) ==
    LET org == n.Repository.Owner IN
    IF c.IncludeOrg # EmptyStr /\ ~EqualFold(org, c.IncludeOrg) THEN FALSE
    ELSE IF c.ExcludeOrg # EmptyStr /\ EqualFold(org, c.ExcludeOrg) THEN FALSE
    ELSE TRUE

\* NeedsReviewerLookup without the org filter.
NeedsReviewerLookup_NoOrgFilter(n, c) ==
    IF n.Reason # "review_requested" THEN FALSE
    ELSE IF n.Subject.Type # "PullRequest" THEN FALSE
    ELSE TRUE

\* NeedsReviewerLookup true for every pull request that passes the filter.
NeedsReviewerLookup_AnyReason(n, c) ==
    IF n.Subject.Type # "PullRequest" THEN FALSE
    ELSE MatchesOrgFilter(n, c)

NeedsReviewerLookup(n, c) ==
    IF n.Reason # "review_requested" THEN FALSE
    ELSE IF n.Subject.Type # "PullRequest" THEN FALSE
    ELSE MatchesOrgFilter(n, c)

\* A *Reviewers argument: the nil pointer, or a pointer to a Reviewers value.
Nil == [nil |-> TRUE]
Ptr(r) == [nil |-> FALSE, Users |-> r.Users, Teams |-> r.Teams]

Decision(n, a, reason) == [Notification |-> n, Action |-> a, Reason |-> reason]

\* for _, user := range reviewers.Users { if strings.EqualFold(user, login) ... }
RECURSIVE RangeUsers(_, _, _)
RangeUsers(users, i, lg) ==
    IF i > Len(users) THEN FALSE
    ELSE IF EqualFold(users[i], lg) THEN TRUE
    ELSE RangeUsers(users, i + 1, lg)

\* Classify with the login compared case-sensitively.
Classify_ExactLogin(n, reviewers, lg, c) ==
    IF ~MatchesOrgFilter(n, c)
    THEN Decision(n, ActionSkip, "filtered by org")
    ELSE IF n.Reason # "review_requested" \/ n.Subject.Type # "PullRequest"
    THEN Decision(n, ActionSkip, "not a review-requested PR")
    ELSE IF reviewers.nil
    THEN Decision(n, ActionSkip, "no reviewer data")
    ELSE IF \E i \in 1..Len(reviewers.Users) : reviewers.Users[i] = lg
    THEN Decision(n, ActionKeep, "direct review request")
    ELSE Decision(n, ActionMute, "team-only review request")

\* Classify without the nil check: absent reviewer data read as "not requested".
Classify_NilIsTeamOnly(n, reviewers, lg, c) ==
    IF ~MatchesOrgFilter(n, c)
    THEN Decision(n, ActionSkip, "filtered by org")
    ELSE IF n.Reason # "review_requested" \/ n.Subject.Type # "PullRequest"
    THEN Decision(n, ActionSkip, "not a review-requested PR")
    ELSE IF ~reviewers.nil /\ RangeUsers(reviewers.Users, 1, lg)
    THEN Decision(n, ActionKeep, "direct review request")
    ELSE Decision(n, ActionMute, "team-only review request")

Classify(n, reviewers, lg, c) ==
    IF ~MatchesOrgFilter(n, c)
    THEN Decision(n, ActionSkip, "filtered by org")
    ELSE IF n.Reason # "review_requested" \/ n.Subject.Type # "PullRequest"
    THEN Decision(n, ActionSkip, "not a review-requested PR")
    ELSE IF reviewers.nil
    THEN Decision(n, ActionSkip, "no reviewer data")
    ELSE IF RangeUsers(reviewers.Users, 1, lg)
    THEN Decision(n, ActionKeep, "direct review request")
    ELSE Decision(n, ActionMute, "team-only review request")

\* reviewersByURL[url] on a Go map: the zero value (nil) for a missing key.
MapGet(m, url) == IF url \in DOMAIN m THEN m[url] ELSE Nil

RECURSIVE ClassifyAllFrom(_, _, _, _, _)
ClassifyAllFrom(ns, i, byURL, lg, c) ==
    IF i > Len(ns) THEN << >>
    ELSE << Classify(ns[i], MapGet(byURL, ns[i].Subject.URL), lg, c) >>
         \o ClassifyAllFrom(ns, i + 1, byURL, lg, c)

ClassifyAll(ns, byURL, lg, c) == ClassifyAllFrom(ns, 1, byURL, lg, c)

RECURSIVE CountFrom(_, _, _)
CountFrom(ds, i, acc) ==
    IF i > Len(ds) THEN acc
    ELSE CountFrom(ds, i + 1,
           CASE ds[i].Action = ActionSkip -> [acc EXCEPT !.skip = @ + 1]
             [] ds[i].Action = ActionKeep -> [acc EXCEPT !.keep = @ + 1]
             [] ds[i].Action = ActionMute -> [acc EXCEPT !.mute = @ + 1]
             [] OTHER -> acc)

\* CountByAction without the ActionKeep case.
CountByAction_NoKeep(ds) ==
    [skip |-> Cardinality({i \in 1..Len(ds) : ds[i].Action = ActionSkip}),
     keep |-> 0,
     mute |-> Cardinality({i \in 1..Len(ds) : ds[i].Action = ActionMute})]

CountByAction(ds) == CountFrom(ds, 1, [skip |-> 0, keep |-> 0, mute |-> 0])

\* fmt.Sprintf("%d", n)
RECURSIVE ItoaNat(_)
ItoaNat(n) ==
    LET d == CHOOSE c \in Digits : DigitVal(c) = n % 10 IN
    IF n < 10 THEN << d >> ELSE Append(ItoaNat(n \div 10), d)

Itoa(n) == IF n < 0 THEN << "-" >> \o ItoaNat(0 - n) ELSE ItoaNat(n)


\* FormatSummary: the closing line of a single run.
FormatSummary(scanned, muted, kept, skipped, errors) ==
    IF errors > 0
    THEN << "\nDone: " >> \o Itoa(scanned) \o << " scanned, " >> \o Itoa(muted)
         \o << " muted, " >> \o Itoa(errors) \o << " errors" >>
    ELSE IF muted > 0
    THEN << "\nDone: " >> \o Itoa(scanned) \o << " scanned, " >> \o Itoa(muted)
         \o << " muted" >>
    ELSE << "\nSummary: " >> \o Itoa(scanned) \o << " scanned, " >> \o Itoa(muted)
         \o << " spam, " >> \o Itoa(kept) \o << " kept, " >> \o Itoa(skipped)
         \o << " skipped" >>

\* FormatDaemonCycleSummary: the line of a daemon cycle, after its time stamp.
FormatDaemonCycleSummary(scanned, muted, errCount, notModified) ==
    IF notModified THEN << "ts", "  cycle: not modified\n" >>
    ELSE << "ts", "  cycle: " >> \o Itoa(scanned) \o << " scanned, " >> \o Itoa(muted)
         \o << " muted, " >> \o Itoa(errCount) \o << " errors\n" >>

\* ---------------------------------------------------------------- github.go

\* toNotification: ghNotification -> core.Notification
toNotification(gn) ==
    [ID         |-> gn.id,
     Reason     |-> gn.reason,
     Subject    |-> [URL |-> gn.subject.url, Type |-> gn.subject.type],
     Repository |-> [Owner |-> gn.repository.owner.login]]

RECURSIVE toNotifications(_)
toNotifications(gns) ==
    IF gns = << >> THEN << >>
    ELSE << toNotification(Head(gns)) >> \o toNotifications(Tail(gns))

\* toReviewers: ghReviewersResponse -> *core.Reviewers
toReviewers(gr) ==
    Ptr([Users |-> [i \in 1..Len(gr.users) |-> gr.users[i].login],
         Teams |-> [i \in 1..Len(gr.teams) |-> gr.teams[i].slug]])

\* The headers setStandardHeaders puts on every request.
setStandardHeaders ==
    {<< "Accept", "application/vnd.github+json" >>,
     << "Authorization", "Bearer token" >>,
     << "X-GitHub-Api-Version", "2022-11-28" >>}

\* isRateLimited taking every 403 for a rate limit.
isRateLimited_Any403(resp) ==
    resp.StatusCode = 429 \/ resp.StatusCode = 403

isRateLimited(resp) ==
    IF resp.StatusCode = 429 THEN TRUE
    ELSE resp.StatusCode = 403 /\ resp.RetryAfter # EmptyStr

\* parseRetryAfter, in seconds
parseRetryAfter(resp) ==
    LET s == resp.RetryAfter IN
    IF s = EmptyStr THEN 60
    ELSE IF ~Atoi(s).ok THEN 60
    ELSE Atoi(s).val

apiRoot == << "https:", "/", "/", "api.github.com", "/" >>

\* fmt.Sprintf("https://api.github.com/notifications?per_page=50&page=%d", page)
listURL(p) == apiRoot \o << "notifications?per_page=50&page=" >> \o Itoa(p)

\* fmt.Sprintf(".../repos/%s/%s/pulls/%d/requested_reviewers", Owner, Repo, Number)
reviewersURL(ref) ==
    apiRoot \o << "repos", "/" >> \o ref.Owner \o << "/" >> \o ref.Repo
            \o << "/", "pulls", "/" >> \o Itoa(ref.Number)
            \o << "/", "requested_reviewers" >>

\* fmt.Sprintf("https://api.github.com/notifications/threads/%s", threadID)
threadURL(id) == apiRoot \o << "notifications", "/", "threads", "/", id >>

\* fmt.Sprintf("https://api.github.com/notifications/threads/%s/subscription", threadID)
subscriptionURL(id) == threadURL(id) \o << "/", "subscription" >>

\* strings.NewReader(`{"ignored":true}`)
ignoredBody == << "{", "\"ignored\"", ":", "true", "}" >>

\* --------------------------------------------------------------- the inputs

\* Most notifications a cycle's inbox holds, over all its pages.
MaxNotifs == 2

Me == << "m", "e" >>

\* Subject references: two pull requests and one reference that does not parse.
U1 == prefix \o << "o", "/", "r", "/", "pulls", "/", "4", "2" >>
U2 == prefix \o << "o", "/", "r", "/", "pulls", "/", "7" >>
UIssue == prefix \o << "o", "/", "r", "/", "issues", "/", "7" >>

GhN(id, reason, type, url, owner) ==
    [id |-> id, reason |-> reason,
     subject |-> [url |-> url, type |-> type],
     repository |-> [owner |-> [login |-> owner]]]

\* The notifications the server may put on a page: two review requests that share
\* a pull request, a mention, a review request whose reference does not parse,
\* and a review request for another pull request.
GhPool ==
    {GhN("1", "review_requested", "PullRequest", U1, << "o" >>),
     GhN("2", "review_requested", "PullRequest", U1, << "O" >>),
     GhN("3", "mention", "PullRequest", U2, << "o" >>),
     GhN("4", "review_requested", "PullRequest", UIssue, << "p" >>),
     GhN("5", "review_requested", "PullRequest", U2, << "p" >>)}

\* The poller world's inbox holds one kind of notification, which the second
\* configuration filters out.
GhPoolPoller == {GhN("5", "review_requested", "PullRequest", U2, << "p" >>)}

Configs ==
    {[IncludeOrg |-> EmptyStr, ExcludeOrg |-> EmptyStr],
     [IncludeOrg |-> EmptyStr, ExcludeOrg |-> << "P" >>]}

GhRev(users, teams) ==
    [users |-> [i \in 1..Len(users) |-> [login |-> users[i]]],
     teams |-> [i \in 1..Len(teams) |-> [slug |-> teams[i]]]]

\* The requested_reviewers bodies the server may answer with.
GhReviewers ==
    {GhRev(<< << "a" >> >>, << << "backend" >> >>),
     GhRev(<< << "a" >>, << "M", "E" >> >>, << >>)}

LastModifieds == {EmptyStr, << "t1" >>, << "t2" >>}
PollIntervals == {EmptyStr, << "3", "0" >>, << "0" >>, << "-", "5" >>, << "x" >>}

Resp(err, status, ra, lm, pi, body) ==
    [err |-> err, StatusCode |-> status, RetryAfter |-> ra,
     LastModified |-> lm, PollInterval |-> pi, body |-> body]

\* A body that json.Decode rejects, and one it decodes to v.
BadBody == [ok |-> FALSE]
Body(v) == [ok |-> TRUE, value |-> v]

\* httpClient.Do failed: no response.
TransportError == Resp(TRUE, 0, EmptyStr, EmptyStr, EmptyStr, BadBody)

\* Status and Retry-After of the responses that carry no usable body.
Heads ==
    {<< st, EmptyStr >> : st \in {200, 201, 205, 304, 403, 429, 500}}
    \cup {<< 403, << "x" >> >>, << 429, << "x" >> >>, << 429, << "2" >> >>}

\* The sequences of at most k different elements of S.
SeqsUpTo(S, k) ==
    {q \in UNION {[1..m -> S] : m \in 0..k} :
       \A i, j \in 1..Len(q) : i # j => q[i] # q[j]}

\* ---------------------------------------------------------------- the state

VARIABLES
    world,                          \* what the server and the operator may do
    apply, daemon, verbose, cfg, login, \* the flags and client.login
    pc,                             \* where the program is
    lastModified, pollInterval,     \* runDaemon's locals
    page, all, result, listed,      \* ListUnreadNotifications' locals and outcome
    pageLog,                        \* the URLs it has requested, while it runs
    notifications, idx,             \* processNotifications' argument and loop index
    reviewersByURL, decisions, errCount,
    http,                           \* the request being exchanged
    sig, timer,                     \* the signal channel, the time.After channel
    wait,                           \* the duration given to time.After, 0 outside the select
    exitCode,                       \* run()'s return value, -1 while running
    report,                         \* what this cycle has printed or logged at its end
    fetchLog, mutLog,               \* this cycle's GetRequestedReviewers / mutation calls
    call                            \* a call of a pure function of package core

vars == << world, apply, daemon, verbose, cfg, login, pc, lastModified, pollInterval, page, all,
           result, listed, pageLog, notifications, idx, reviewersByURL, decisions, errCount, http,
           sig, timer, wait, exitCode, report, fetchLog, mutLog, call >>

flags == << world, apply, daemon, verbose, cfg, login >>
listVars == << page, all, result, listed, pageLog >>
procVars == << notifications, idx, reviewersByURL, decisions, errCount >>
daemonVars == << lastModified, pollInterval >>

\* The "inbox" world varies the inbox: any notifications of GhPool, no polling
\* headers, signals only while the daemon sleeps.  The "poller" world varies the
\* polling: one kind of notification, every polling header, signals at any time.
Pool == IF world = "poller" THEN GhPoolPoller ELSE GhPool
PollingHeaders ==
    IF world = "poller" THEN LastModifieds \X PollIntervals
    ELSE {<< EmptyStr, EmptyStr >>}

\* An inbox holds a thread once: the notifications not listed on an earlier page.
Unlisted == {g \in Pool : \A i \in 1..Len(all) : all[i].ID # g.id}

\* What the server may answer to a page request when `room` more notifications fit.
ListResponses(room) ==
    {TransportError}
    \cup {Resp(FALSE, h[1], h[2], ph[1], ph[2], BadBody) : h \in Heads, ph \in PollingHeaders}
    \cup {Resp(FALSE, 200, EmptyStr, ph[1], ph[2], Body(items)) :
            ph \in PollingHeaders, items \in SeqsUpTo(Unlisted, room)}

ReviewersResponses ==
    {TransportError}
    \cup {Resp(FALSE, h[1], h[2], EmptyStr, EmptyStr, BadBody) : h \in Heads}
    \cup {Resp(FALSE, 200, EmptyStr, EmptyStr, EmptyStr, Body(gr)) : gr \in GhReviewers}

MutationResponses ==
    {TransportError}
    \cup {Resp(FALSE, h[1], h[2], EmptyStr, EmptyStr, BadBody) : h \in Heads}

EmptyMap == [u \in {} |-> Nil]

\* &NotificationsResult{}
ZeroResult ==
    [Notifications |-> << >>, NotModified |-> FALSE, LastModified |-> EmptyStr,
     PollInterval |-> 0]

NoResp == [none |-> TRUE]

Idle == [phase |-> "idle", attempt |-> 0, sent |-> << >>, pauses |-> << >>,
         reader |-> EmptyStr, resp |-> NoResp]

NoCall == [op |-> "none"]

\* Nothing printed yet, and a line written to a stream.
NoReport == [stream |-> "none", text |-> << >>]
Line(stream, text) == [stream |-> stream, text |-> text]

Request(method, url, headers, body) ==
    [method |-> method, url |-> url, headers |-> headers, body |-> body]

\* The first pass of do's loop up to httpClient.Do: the request is built from
\* what the body reader still holds, and sent.
NewDo(method, url, reader) ==
    [phase |-> "wait", attempt |-> 0,
     sent |-> << Request(method, url, setStandardHeaders, reader) >>,
     pauses |-> << >>, reader |-> reader, resp |-> NoResp]

\* The state when run() has fetched the login and is about to enter runOnce or
\* runDaemon: the world w, the daemon flag in d, the verbose flag in vs, the
\* config in cs, the login in ls.
Start(w, d, vs, cs, ls) ==
    /\ world = w
    /\ apply \in BOOLEAN
    /\ daemon \in d
    /\ verbose \in vs
    /\ cfg \in cs
    /\ login \in ls
    /\ pc = "cycle"
    /\ lastModified = EmptyStr
    /\ pollInterval = 60
    /\ page = 0
    /\ all = << >>
    /\ result = ZeroResult
    /\ listed = "no"
    /\ pageLog = << >>
    /\ notifications = << >>
    /\ idx = 0
    /\ reviewersByURL = EmptyMap
    /\ decisions = << >>
    /\ errCount = 0
    /\ http = Idle
    /\ sig = FALSE
    /\ timer = FALSE
    /\ wait = 0
    /\ exitCode = -1
    /\ report = NoReport
    /\ fetchLog = << >>
    /\ mutLog = << >>

Init == Start("inbox", BOOLEAN, {TRUE}, Configs, {Me}) /\ call = NoCall

InitDaemon == Start("poller", {TRUE}, BOOLEAN, Configs, {Me}) /\ call = NoCall

\* ------------------------------------------------------- the retry machinery

\* The server's answer to the request in flight arrives (httpClient.Do returns).
\* By then the transport has read the request body from its reader, unless the
\* answer came before it did.
Receive ==
    /\ http.phase = "wait"
    /\ \E r \in (CASE pc = "list" -> ListResponses(MaxNotifs - Len(all))
                   [] pc = "reviewers" -> ReviewersResponses
                   [] OTHER -> MutationResponses),
          drained \in (IF http.reader = EmptyStr THEN {TRUE} ELSE BOOLEAN) :
         http' = [http EXCEPT !.phase = "got",
                              !.resp = r,
                              !.reader = IF drained THEN EmptyStr ELSE @]
    /\ UNCHANGED << flags, pc, daemonVars, listVars, procVars, sig, timer, wait, exitCode, report,
                    fetchLog, mutLog, call >>

\* do, lines 86-98, on the response r of the current attempt:
\* "error" (return nil, err), "pause" (rate limited on attempt 0) or "resp".
doOutcome(r) ==
    IF r.err THEN "error"
    ELSE IF http.attempt = 0 /\ isRateLimited(r) THEN "pause"
    ELSE "resp"

\* listOutcome pausing after every throttled response.
listOutcome_RetriesAgain(r) ==
    IF r.err THEN "error"
    ELSE IF isRateLimited(r) THEN "pause"
    ELSE "resp"

\* ListUnreadNotifications, lines 173-188: the retry is written inline and is
\* taken once, on the first response only.
listOutcome(r) ==
    IF r.err THEN "error"
    ELSE IF http.attempt = 0 /\ isRateLimited(r) THEN "pause"
    ELSE "resp"

\* wait := parseRetryAfter(resp); resp.Body.Close(); time.Sleep(wait) is entered.
Pause(r) ==
    http' = [http EXCEPT !.phase = "pause",
                         !.pauses = Append(@, parseRetryAfter(r)),
                         !.resp = NoResp]

\* time.Sleep returns and the request goes out again: ListUnreadNotifications
\* sends the same req; do builds a new request from method, url and body reader.
Retry ==
    /\ http.phase = "pause"
    /\ http' = [http EXCEPT
                  !.phase = "wait",
                  !.attempt = 1,
                  !.sent = Append(@,
                     IF pc = "list" THEN http.sent[1]
                     ELSE Request(http.sent[1].method, http.sent[1].url,
                                  setStandardHeaders, http.reader))]
    /\ pageLog' = IF pc = "list" THEN Append(pageLog, http.sent[1].url) ELSE pageLog
    /\ UNCHANGED << flags, pc, daemonVars, page, all, result, listed, procVars, sig, timer, wait,
                    exitCode, report, fetchLog, mutLog, call >>

\* ------------------------------------------------------ processNotifications

SetLast(log, st) == [log EXCEPT ![Len(log)].state = st]

\* StartMarkThreadRead sending the mute request first.
StartMarkThreadRead_MutesFirst(id) ==
    /\ http' = NewDo("PUT", subscriptionURL(id), ignoredBody)
    /\ mutLog' = Append(mutLog, [op |-> "muteThread", id |-> id, state |-> "pending"])

\* MarkThreadRead up to the first httpClient.Do
StartMarkThreadRead(id) ==
    /\ http' = NewDo("PATCH", threadURL(id), EmptyStr)
    /\ mutLog' = Append(mutLog, [op |-> "markRead", id |-> id, state |-> "pending"])

\* StartIgnoreThread marking the thread read once more.
StartIgnoreThread_MarksAgain(id) ==
    /\ http' = NewDo("PATCH", threadURL(id), EmptyStr)
    /\ mutLog' = Append(SetLast(mutLog, "ok"),
                        [op |-> "markRead", id |-> id, state |-> "pending"])

\* IgnoreThread up to the first httpClient.Do
StartIgnoreThread(id) ==
    /\ http' = NewDo("PUT", subscriptionURL(id), ignoredBody)
    /\ mutLog' = Append(SetLast(mutLog, "ok"),
                        [op |-> "muteThread", id |-> id, state |-> "pending"])

\* EndIteration counting no error.
EndIteration_CountsNothing(mutErr) ==
    /\ errCount' = errCount
    /\ idx' = idx + 1
    /\ pc' = "loop"

\* EndIteration leaving the loop after a failed mutation.
EndIteration_StopsOnError(mutErr) ==
    /\ errCount' = IF mutErr THEN errCount + 1 ELSE errCount
    /\ idx' = IF mutErr THEN Len(notifications) + 1 ELSE idx + 1
    /\ pc' = "loop"

\* Lines 172-178 and the end of the loop body.
EndIteration(mutErr) ==
    /\ errCount' = IF mutErr THEN errCount + 1 ELSE errCount
    /\ idx' = idx + 1
    /\ pc' = "loop"

\* ClassifyAndAct mutating whether or not apply is set.
ClassifyAndAct_IgnoresApply(byURL) ==
    LET n == notifications[idx]
        d == Classify(n, MapGet(byURL, n.Subject.URL), login, cfg)
    IN /\ reviewersByURL' = byURL
       /\ decisions' = Append(decisions, d)
       /\ IF d.Action = ActionMute
          THEN /\ StartMarkThreadRead(d.Notification.ID)
               /\ pc' = "mark"
               /\ UNCHANGED << idx, errCount >>
          ELSE /\ EndIteration(FALSE)
               /\ http' = Idle
               /\ UNCHANGED mutLog

\* ClassifyAndAct recording no decision for a notification it skips.
ClassifyAndAct_SkipsUnrecorded(byURL) ==
    LET n == notifications[idx]
        d == Classify(n, MapGet(byURL, n.Subject.URL), login, cfg)
    IN /\ reviewersByURL' = byURL
       /\ decisions' = IF d.Action = ActionSkip THEN decisions ELSE Append(decisions, d)
       /\ IF apply /\ d.Action = ActionMute
          THEN /\ StartMarkThreadRead(d.Notification.ID)
               /\ pc' = "mark"
               /\ UNCHANGED << idx, errCount >>
          ELSE /\ EndIteration(FALSE)
               /\ http' = Idle
               /\ UNCHANGED mutLog

\* Lines 160-171: classify notifications[idx] against byURL, append the decision,
\* and start the mutation when apply is set and the decision is Mute.
ClassifyAndAct(byURL) ==
    LET n == notifications[idx]
        d == Classify(n, MapGet(byURL, n.Subject.URL), login, cfg)
    IN /\ reviewersByURL' = byURL
       /\ decisions' = Append(decisions, d)
       /\ IF apply /\ d.Action = ActionMute
          THEN /\ StartMarkThreadRead(d.Notification.ID)
               /\ pc' = "mark"
               /\ UNCHANGED << idx, errCount >>
          ELSE /\ EndIteration(FALSE)
               /\ http' = Idle
               /\ UNCHANGED mutLog

\* The loop is over: processNotifications returns to runOnce (lines 85-91) or to
\* runDaemon (lines 123-134).
\* ProcessReturn reporting every Mute decision as muted.
ProcessReturn_ReportsAllMutes ==
    /\ pc = "loop"
    /\ idx > Len(notifications)
    /\ LET c == CountByAction(decisions) IN
       IF daemon
       THEN /\ report' = Line("stdout",
                              FormatDaemonCycleSummary(Len(decisions), c.mute,
                                                       errCount, FALSE))
            /\ pc' = "sleep" /\ timer' = FALSE /\ wait' = pollInterval
            /\ UNCHANGED exitCode
       ELSE /\ report' = Line("stdout",
                              FormatSummary(Len(decisions), c.mute, c.keep,
                                            c.skip, errCount))
            /\ pc' = "exit" /\ exitCode' = (IF errCount > 0 THEN 1 ELSE 0)
            /\ UNCHANGED << timer, wait >>
    /\ UNCHANGED << flags, daemonVars, listVars, procVars, http, sig, fetchLog, mutLog,
                    call >>

ProcessReturn ==
    /\ pc = "loop"
    /\ idx > Len(notifications)
    /\ LET c == CountByAction(decisions) IN
       IF daemon
       THEN /\ report' = Line("stdout",
                              FormatDaemonCycleSummary(Len(decisions), c.mute - errCount,
                                                       errCount, FALSE))
            /\ pc' = "sleep" /\ timer' = FALSE /\ wait' = pollInterval
            /\ UNCHANGED exitCode
       ELSE /\ report' = Line("stdout",
                              FormatSummary(Len(decisions), c.mute - errCount, c.keep,
                                            c.skip, errCount))
            /\ pc' = "exit" /\ exitCode' = (IF errCount > 0 THEN 1 ELSE 0)
            /\ UNCHANGED << timer, wait >>
    /\ UNCHANGED << flags, daemonVars, listVars, procVars, http, sig, fetchLog, mutLog,
                    call >>

\* A notification that needs no request before it is classified.
ProcessNoLookup ==
    /\ pc = "loop"
    /\ idx <= Len(notifications)
    /\ LET n == notifications[idx] IN
       /\ ~(NeedsReviewerLookup(n, cfg) /\ n.Subject.URL \notin DOMAIN reviewersByURL)
       /\ ClassifyAndAct(reviewersByURL)
    /\ UNCHANGED << flags, daemonVars, listVars, notifications, sig, timer, wait, exitCode, report,
                    fetchLog, call >>

\* Lines 147-149 and GetRequestedReviewers up to its request: a subject URL that
\* does not parse fails the lookup before any request is made.
ProcessLookup ==
    /\ pc = "loop"
    /\ idx <= Len(notifications)
    /\ LET n   == notifications[idx]
           ref == ParseSubjectURL(n.Subject.URL)
       IN /\ NeedsReviewerLookup(n, cfg)
          /\ n.Subject.URL \notin DOMAIN reviewersByURL
          /\ IF ref.err
             THEN /\ fetchLog' = Append(fetchLog, [url |-> n.Subject.URL, state |-> "failed", users |-> << >>])
                  /\ ClassifyAndAct(reviewersByURL)
             ELSE /\ fetchLog' = Append(fetchLog, [url |-> n.Subject.URL, state |-> "pending", users |-> << >>])
                  /\ http' = NewDo("GET", reviewersURL(ref), EmptyStr)
                  /\ pc' = "reviewers"
                  /\ UNCHANGED << idx, reviewersByURL, decisions, errCount, mutLog >>
    /\ UNCHANGED << flags, daemonVars, listVars, notifications, sig, timer, wait, exitCode, report, call >>

\* ReviewersRespond leaving the loop when the lookup has failed.
ReviewersRespond_AbortsOnFailure ==
    /\ pc = "reviewers"
    /\ http.phase = "got"
    /\ LET r   == http.resp
           url == notifications[idx].Subject.URL
       IN CASE doOutcome(r) = "pause" ->
                /\ Pause(r)
                /\ UNCHANGED << pc, procVars, fetchLog, mutLog >>
            [] doOutcome(r) = "resp" /\ r.StatusCode = 200 /\ r.body.ok ->
                /\ fetchLog' = [SetLast(fetchLog, "ok") EXCEPT ![Len(fetchLog)].users =
                                  [i \in 1..Len(r.body.value.users) |->
                                     r.body.value.users[i].login]]
                /\ ClassifyAndAct((url :> toReviewers(r.body.value)) @@ reviewersByURL)
            [] OTHER ->
                /\ fetchLog' = SetLast(fetchLog, "failed")
                /\ http' = Idle
                /\ pc' = "loop"
                /\ idx' = Len(notifications) + 1
                /\ UNCHANGED << reviewersByURL, decisions, errCount, mutLog >>
    /\ UNCHANGED << flags, daemonVars, listVars, notifications, sig, timer, wait, exitCode,
                    report, call >>

\* GetRequestedReviewers from the response on, then lines 150-171.
ReviewersRespond ==
    /\ pc = "reviewers"
    /\ http.phase = "got"
    /\ LET r   == http.resp
           url == notifications[idx].Subject.URL
       IN CASE doOutcome(r) = "pause" ->
                /\ Pause(r)
                /\ UNCHANGED << pc, procVars, fetchLog, mutLog >>
            [] doOutcome(r) = "resp" /\ r.StatusCode = 200 /\ r.body.ok ->
                /\ fetchLog' = [SetLast(fetchLog, "ok") EXCEPT ![Len(fetchLog)].users =
                                  [i \in 1..Len(r.body.value.users) |->
                                     r.body.value.users[i].login]]
                /\ ClassifyAndAct((url :> toReviewers(r.body.value)) @@ reviewersByURL)
            [] OTHER ->
                /\ fetchLog' = SetLast(fetchLog, "failed")
                /\ ClassifyAndAct(reviewersByURL)
    /\ UNCHANGED << flags, daemonVars, listVars, notifications, sig, timer, wait, exitCode, report, call >>

\* MarkThreadRead from the response on, then lines 167-178.
MarkRespond ==
    /\ pc = "mark"
    /\ http.phase = "got"
    /\ LET r == http.resp IN
       CASE doOutcome(r) = "pause" ->
              /\ Pause(r)
              /\ UNCHANGED << pc, idx, errCount, mutLog >>
         [] doOutcome(r) = "resp" /\ r.StatusCode \in {205, 200} ->
              /\ StartIgnoreThread(notifications[idx].ID)
              /\ pc' = "mute"
              /\ UNCHANGED << idx, errCount >>
         [] OTHER ->
              /\ mutLog' = SetLast(mutLog, "failed")
              /\ http' = Idle
              /\ EndIteration(TRUE)
    /\ UNCHANGED << flags, daemonVars, listVars, notifications, reviewersByURL, decisions,
                    sig, timer, wait, exitCode, report, fetchLog, call >>

\* IgnoreThread from the response on, then lines 169-178.
MuteRespond ==
    /\ pc = "mute"
    /\ http.phase = "got"
    /\ LET r == http.resp IN
       CASE doOutcome(r) = "pause" ->
              /\ Pause(r)
              /\ UNCHANGED << pc, idx, errCount, mutLog >>
         [] doOutcome(r) = "resp" /\ r.StatusCode \in {200, 201} ->
              /\ mutLog' = SetLast(mutLog, "ok")
              /\ http' = Idle
              /\ EndIteration(FALSE)
         [] OTHER ->
              /\ mutLog' = SetLast(mutLog, "failed")
              /\ http' = Idle
              /\ EndIteration(TRUE)
    /\ UNCHANGED << flags, daemonVars, listVars, notifications, reviewersByURL, decisions,
                    sig, timer, wait, exitCode, report, fetchLog, call >>

\* --------------------------------------- ListUnreadNotifications and callers

\* Lines 161-173: the request for page p; If-Modified-Since on page 1 only.
PageRequest(p, lm) ==
    Request("GET", listURL(p),
            setStandardHeaders \cup
              (IF lm # EmptyStr /\ p = 1 THEN {<< "If-Modified-Since", lm >>} ELSE {}),
            EmptyStr)

SendPage(p, lm) ==
    [phase |-> "wait", attempt |-> 0, sent |-> << PageRequest(p, lm) >>,
     pauses |-> << >>, reader |-> EmptyStr, resp |-> NoResp]

\* The argument runOnce (line 64) and runDaemon (line 104) pass.
ListArg == IF daemon THEN lastModified ELSE EmptyStr

\* Capture taking the polling metadata of every page.
Capture_EveryPage(res, r) ==
    [res EXCEPT
       !.LastModified = IF r.LastModified # EmptyStr THEN r.LastModified ELSE @,
       !.PollInterval = IF r.PollInterval # EmptyStr /\ Atoi(r.PollInterval).ok
                        THEN Atoi(r.PollInterval).val ELSE @]

\* Lines 191-200: polling metadata, captured from the first page only.
Capture(res, r) ==
    IF page # 1 THEN res
    ELSE [res EXCEPT
            !.LastModified = IF r.LastModified # EmptyStr THEN r.LastModified ELSE @,
            !.PollInterval = IF r.PollInterval # EmptyStr /\ Atoi(r.PollInterval).ok
                             THEN Atoi(r.PollInterval).val ELSE @]

\* runOnce line 64 / the head of runDaemon's loop, line 104.
StartCycle ==
    /\ pc = "cycle"
    /\ pc' = "list"
    /\ page' = 1
    /\ all' = << >>
    /\ result' = ZeroResult
    /\ listed' = "no"
    /\ pageLog' = << listURL(1) >>
    /\ http' = SendPage(1, ListArg)
    /\ notifications' = << >>
    /\ idx' = 0
    /\ reviewersByURL' = EmptyMap
    /\ decisions' = << >>
    /\ errCount' = 0
    /\ fetchLog' = << >>
    /\ mutLog' = << >>
    /\ report' = NoReport
    /\ UNCHANGED << flags, daemonVars, sig, timer, wait, exitCode, call >>

\* The errors of ListUnreadNotifications, lines 175, 186, 210 and 216.
ListErr(p, why) == << "list notifications page " >> \o Itoa(p) \o why

\* The error for the response r of page p.
ListErrOf(p, r) ==
    IF r.err
    THEN ListErr(p, IF http.attempt = 0 THEN << ": ", "transport" >>
                    ELSE << " (retry): ", "transport" >>)
    ELSE IF r.StatusCode # 200
    THEN ListErr(p, << ": unexpected status " >> \o Itoa(r.StatusCode))
    ELSE ListErr(p, << ": ", "decode" >>)

\* ListFailed ending the daemon as it ends a single run.
ListFailed_EndsDaemon(err) ==
    /\ listed' = "err"
    /\ page' = 0
    /\ all' = << >>
    /\ pageLog' = << >>
    /\ http' = Idle
    /\ report' = Line("stderr", << "Error: " >> \o err \o << "\n" >>)
    /\ pc' = "exit" /\ exitCode' = 1 /\ UNCHANGED << timer, wait >>
    /\ result' = ZeroResult
    /\ UNCHANGED << daemonVars, procVars >>

\* ListFailed storing the token captured before the failure.
ListFailed_StoresToken(err) ==
    /\ listed' = "err"
    /\ page' = 0
    /\ all' = << >>
    /\ pageLog' = << >>
    /\ http' = Idle
    /\ IF daemon
       THEN /\ report' = Line("log", << "cycle error: " >> \o err)
            /\ pc' = "sleep" /\ timer' = FALSE /\ wait' = pollInterval
            /\ UNCHANGED exitCode
       ELSE /\ report' = Line("stderr", << "Error: " >> \o err \o << "\n" >>)
            /\ pc' = "exit" /\ exitCode' = 1 /\ UNCHANGED << timer, wait >>
    /\ lastModified' = IF result.LastModified # EmptyStr THEN result.LastModified
                       ELSE lastModified
    /\ result' = ZeroResult
    /\ UNCHANGED << pollInterval, procVars >>

\* ListUnreadNotifications returned nil and the error err (its locals are gone):
\* runOnce lines 65-68, runDaemon lines 107-108.
ListFailed(err) ==
    /\ listed' = "err"
    /\ page' = 0
    /\ all' = << >>
    /\ pageLog' = << >>
    /\ http' = Idle
    /\ IF daemon
       THEN /\ report' = Line("log", << "cycle error: " >> \o err)
            /\ pc' = "sleep" /\ timer' = FALSE /\ wait' = pollInterval
            /\ UNCHANGED exitCode
       ELSE /\ report' = Line("stderr", << "Error: " >> \o err \o << "\n" >>)
            /\ pc' = "exit" /\ exitCode' = 1 /\ UNCHANGED << timer, wait >>
    /\ result' = ZeroResult
    /\ UNCHANGED << daemonVars, procVars >>

\* ListReturned taking every poll interval the list returns.
ListReturned_TakesAnyHint(res) ==
    /\ listed' = "ok"
    /\ result' = res
    /\ http' = Idle
    /\ IF daemon
       THEN /\ lastModified' = IF res.LastModified # EmptyStr
                               THEN res.LastModified ELSE lastModified
            /\ pollInterval' = res.PollInterval
       ELSE UNCHANGED daemonVars
    /\ IF res.NotModified \/ Len(res.Notifications) = 0
       THEN /\ IF daemon
               THEN /\ report' = IF verbose
                                 THEN Line("stdout", FormatDaemonCycleSummary(0, 0, 0, TRUE))
                                 ELSE NoReport
                    /\ pc' = "sleep" /\ timer' = FALSE /\ wait' = pollInterval'
                    /\ UNCHANGED exitCode
               ELSE /\ report' = Line("stdout", << "No unread notifications.", "\n" >>)
                    /\ pc' = "exit" /\ exitCode' = 0 /\ UNCHANGED << timer, wait >>
            /\ UNCHANGED procVars
       ELSE /\ pc' = "loop"
            /\ notifications' = res.Notifications
            /\ idx' = 1
            /\ UNCHANGED << reviewersByURL, decisions, errCount, timer, wait, exitCode, report >>
    /\ page' = 0
    /\ all' = << >>
    /\ pageLog' = << >>

\* ListUnreadNotifications returned res: runOnce lines 69-83, runDaemon lines
\* 110-122.
ListReturned(res) ==
    /\ listed' = "ok"
    /\ result' = res
    /\ http' = Idle
    /\ IF daemon
       THEN /\ lastModified' = IF res.LastModified # EmptyStr
                               THEN res.LastModified ELSE lastModified
            /\ pollInterval' = IF res.PollInterval > 0
                               THEN res.PollInterval ELSE pollInterval
       ELSE UNCHANGED daemonVars
    /\ IF res.NotModified \/ Len(res.Notifications) = 0
       THEN /\ IF daemon
               THEN /\ report' = IF verbose
                                 THEN Line("stdout", FormatDaemonCycleSummary(0, 0, 0, TRUE))
                                 ELSE NoReport
                    /\ pc' = "sleep" /\ timer' = FALSE /\ wait' = pollInterval'
                    /\ UNCHANGED exitCode
               ELSE /\ report' = Line("stdout", << "No unread notifications.", "\n" >>)
                    /\ pc' = "exit" /\ exitCode' = 0 /\ UNCHANGED << timer, wait >>
            /\ UNCHANGED procVars
       ELSE /\ pc' = "loop"
            /\ notifications' = res.Notifications
            /\ idx' = 1
            /\ UNCHANGED << reviewersByURL, decisions, errCount, timer, wait, exitCode, report >>
    /\ page' = 0
    /\ all' = << >>
    /\ pageLog' = << >>

\* ListUnreadNotifications from a page's response on, lines 174-226.
ListRespond ==
    /\ pc = "list"
    /\ http.phase = "got"
    /\ LET r   == http.resp
           res == Capture(result, r)
       IN CASE listOutcome(r) = "error" -> ListFailed(ListErrOf(page, r))
            [] listOutcome(r) = "pause" ->
                 /\ Pause(r)
                 /\ UNCHANGED << pc, listVars, daemonVars, procVars, timer, wait, exitCode, report >>
            [] listOutcome(r) = "resp" /\ r.StatusCode = 304 ->
                 ListReturned([res EXCEPT !.NotModified = TRUE])
            [] listOutcome(r) = "resp" /\ r.StatusCode # 304 /\ r.StatusCode # 200 ->
                 ListFailed(ListErrOf(page, r))
            [] listOutcome(r) = "resp" /\ r.StatusCode = 200 /\ ~r.body.ok ->
                 ListFailed(ListErrOf(page, r))
            [] listOutcome(r) = "resp" /\ r.StatusCode = 200 /\ r.body.ok
                 /\ Len(r.body.value) = 0 ->
                 ListReturned([res EXCEPT !.Notifications = all])
            [] OTHER ->
                 /\ all' = all \o toNotifications(r.body.value)
                 /\ page' = page + 1
                 /\ result' = res
                 /\ pageLog' = Append(pageLog, listURL(page + 1))
                 /\ http' = SendPage(page + 1, ListArg)
                 /\ UNCHANGED << pc, listed, daemonVars, procVars, timer, wait, exitCode, report >>
    /\ UNCHANGED << flags, sig, fetchLog, mutLog, call >>

\* ------------------------------------------------------------------ runDaemon

\* SIGINT or SIGTERM is delivered into the buffered channel sig.
Signal ==
    /\ daemon
    /\ pc # "exit"
    /\ world = "inbox" => pc = "sleep"
    /\ ~sig
    /\ sig' = TRUE
    /\ UNCHANGED << flags, pc, daemonVars, listVars, procVars, http, timer, wait, exitCode, report,
                    fetchLog, mutLog, call >>

\* pollInterval has passed since the select of line 128 was entered.
TimerExpire ==
    /\ pc = "sleep"
    /\ ~timer
    /\ timer' = TRUE
    /\ UNCHANGED << flags, pc, daemonVars, listVars, procVars, http, sig, wait, exitCode, report,
                    fetchLog, mutLog, call >>

\* case s := <-sig: return 0
SelectSignal ==
    /\ pc = "sleep"
    /\ sig
    /\ pc' = "exit"
    /\ exitCode' = 0
    /\ sig' = FALSE
    /\ UNCHANGED << report, flags, daemonVars, listVars, procVars, http, timer, wait, fetchLog, mutLog,
                    call >>

\* case <-time.After(pollInterval): next cycle
SelectTimer ==
    /\ pc = "sleep"
    /\ timer
    /\ pc' = "cycle"
    /\ timer' = FALSE
    /\ wait' = 0
    /\ UNCHANGED << flags, daemonVars, listVars, procVars, http, sig, exitCode, report, fetchLog,
                    mutLog, call >>

Next ==
    \/ StartCycle
    \/ Receive
    \/ ListRespond
    \/ Retry
    \/ ProcessLookup
    \/ ProcessNoLookup
    \/ ReviewersRespond
    \/ MarkRespond
    \/ MuteRespond
    \/ ProcessReturn
    \/ Signal
    \/ TimerExpire
    \/ SelectSignal
    \/ SelectTimer

Spec == Init /\ [][Next]_vars

SpecDaemon == InitDaemon /\ [][Next]_vars

\* The daemon with time passing and the select of line 128 taking a ready case.
SpecDaemonLive ==
    /\ InitDaemon
    /\ [][Next]_vars
    /\ WF_vars(TimerExpire)
    /\ WF_vars(SelectSignal \/ SelectTimer)

\* The daemon when every request is answered and every pause and wait ends; the
\* select of line 128 picks among its ready cases at random, so a case that is
\* ready again and again is taken.
SpecDaemonFair ==
    /\ InitDaemon
    /\ [][Next]_vars
    /\ WF_vars(StartCycle \/ Receive \/ ListRespond \/ Retry \/ ProcessLookup
               \/ ProcessNoLookup \/ ReviewersRespond \/ MarkRespond \/ MuteRespond
               \/ ProcessReturn)
    /\ WF_vars(TimerExpire)
    /\ WF_vars(SelectSignal \/ SelectTimer)
    /\ SF_vars(SelectSignal)

\* ------------------------------------------------- the daemon, a steady inbox

\* The "steady" world: the server's inbox holds one unread thread, a review
\* request whose pull request asks a team and another user, and does not change
\* while the thread is unread.  The server answers a page request that carries
\* the token it handed out with 304, any other with the inbox and that token; it
\* throttles first attempts at will, and fails at most one reviewer fetch or
\* mark-read per cycle.  No signal arrives.
SteadyThread == GhN("5", "review_requested", "PullRequest", U2, << "p" >>)
SteadyToken == << "t1" >>
SteadyReviewers == GhRev(<< << "a" >> >>, << << "backend" >> >>)

InitSteady == Start("steady", {TRUE}, BOOLEAN, Configs, {Me}) /\ call = NoCall

SteadyResponses ==
    LET req == http.sent[Len(http.sent)]
        plain(st) == Resp(FALSE, st, EmptyStr, EmptyStr, EmptyStr, BadBody)
        throttled == IF http.attempt = 0
                     THEN {Resp(FALSE, 429, << "2" >>, EmptyStr, EmptyStr, BadBody)}
                     ELSE {}
        mayFail == /\ \A f \in 1..Len(fetchLog) : fetchLog[f].state # "failed"
                   /\ \A k \in 1..Len(mutLog) : mutLog[k].state # "failed"
        failing == IF mayFail THEN {plain(500)} ELSE {}
    IN CASE pc = "list" ->
              throttled \cup
              (IF << "If-Modified-Since", SteadyToken >> \in req.headers
               THEN {plain(304)}
               ELSE {Resp(FALSE, 200, EmptyStr, SteadyToken, EmptyStr,
                          Body(IF page = 1 THEN << SteadyThread >> ELSE << >>))})
         [] pc = "reviewers" ->
              throttled \cup failing \cup
              {Resp(FALSE, 200, EmptyStr, EmptyStr, EmptyStr, Body(SteadyReviewers))}
         [] pc = "mark" -> throttled \cup failing \cup {plain(205)}
         [] OTHER -> throttled \cup {plain(200)}

\* httpClient.Do returns with the steady server's answer.
ReceiveSteady ==
    /\ http.phase = "wait"
    /\ \E r \in SteadyResponses,
          drained \in (IF http.reader = EmptyStr THEN {TRUE} ELSE BOOLEAN) :
         http' = [http EXCEPT !.phase = "got",
                              !.resp = r,
                              !.reader = IF drained THEN EmptyStr ELSE @]
    /\ UNCHANGED << flags, pc, daemonVars, listVars, procVars, sig, timer, wait, exitCode, report,
                    fetchLog, mutLog, call >>

NextSteady ==
    \/ StartCycle
    \/ ReceiveSteady
    \/ ListRespond
    \/ Retry
    \/ ProcessLookup
    \/ ProcessNoLookup
    \/ ReviewersRespond
    \/ MarkRespond
    \/ MuteRespond
    \/ ProcessReturn
    \/ TimerExpire
    \/ SelectTimer

\* Every request is answered, every pause and every wait between cycles ends.
SpecSteady == InitSteady /\ [][NextSteady]_vars /\ WF_vars(NextSteady)

\* ------------------------------------------------ package core, called alone

Orgs == {<< "o" >>, << "O" >>, << "p" >>}
OrgFilters == {EmptyStr} \cup Orgs

PureConfigs == [IncludeOrg : OrgFilters, ExcludeOrg : OrgFilters]

PureLogins == {Me, << "M", "E" >>}

PureNotifs ==
    {toNotification(GhN("1", reason, type, U1, owner)) :
       reason \in {"review_requested", "mention"},
       type \in {"PullRequest", "Issue"},
       owner \in Orgs}

UserLists ==
    {<< >>, << << "a" >> >>, << << "m" >> >>, << Me >>, << << "a" >>, << "M", "e" >> >>,
     << << "m", "E" >>, << "a" >> >>}

TeamLists == {<< >>, << << "backend" >> >>}

PureReviewers ==
    {Nil} \cup {Ptr([Users |-> u, Teams |-> t]) : u \in UserLists, t \in TeamLists}

InitPure ==
    /\ Start("pure", {FALSE}, {FALSE}, PureConfigs, PureLogins)
    /\ call \in {[op |-> "args", n |-> n, reviewers |-> rv] :
                   n \in PureNotifs, rv \in PureReviewers}

Called(op, out) ==
    /\ call.op = "args"
    /\ call' = [op |-> op, n |-> call.n, reviewers |-> call.reviewers, out |-> out]
    /\ UNCHANGED << flags, pc, daemonVars, listVars, procVars, http, sig, timer, wait, exitCode, report,
                    fetchLog, mutLog >>

CallMatchesOrgFilter == Called("MatchesOrgFilter", MatchesOrgFilter(call.n, cfg))

CallNeedsReviewerLookup == Called("NeedsReviewerLookup", NeedsReviewerLookup(call.n, cfg))

CallClassify == Called("Classify", Classify(call.n, call.reviewers, login, cfg))

NextPure ==
    \/ CallMatchesOrgFilter
    \/ CallNeedsReviewerLookup
    \/ CallClassify

SpecPure == InitPure /\ [][NextPure]_vars

\* ParseSubjectURL called alone, on references put together from a root, an
\* owner, a repository, a kind, a number and a tail.
Roots == {prefix, << "https:", "/", "/", "github.com", "/" >>}

Numbers ==
    {<< "4", "2" >>, << "1" >>, << "0" >>, << "-", "1" >>, << "+", "4", "2" >>,
     << "a", "b", "c" >>, << "4", "x" >>, << >>}

Tails == {<< >>, << "/", "reviews" >>}

References ==
    {<< >>, prefix \o << "o", "/", "pulls", "/", "4", "2" >>}
    \cup {root \o << owner, "/", "r", "/", kind, "/" >> \o number \o tail :
            root \in Roots, owner \in {"o", "my-org"},
            kind \in {"pulls", "pull", "issues"}, number \in Numbers, tail \in Tails}

InitParse ==
    /\ Start("pure", {FALSE}, {FALSE}, {CHOOSE c \in Configs : c.ExcludeOrg = EmptyStr}, {Me})
    /\ call \in {[op |-> "url", url |-> u] : u \in References}

CallParseSubjectURL ==
    /\ call.op = "url"
    /\ call' = [op |-> "ParseSubjectURL", url |-> call.url, out |-> ParseSubjectURL(call.url)]
    /\ UNCHANGED << flags, pc, daemonVars, listVars, procVars, http, sig, timer, wait,
                    exitCode, report, fetchLog, mutLog >>

NextParse == CallParseSubjectURL

SpecParse == InitParse /\ [][NextParse]_vars

\* ------------------------------------------------------------------ claims

\* The words of the claims: equality of two names ignoring case, the org
\* filter, a pull-request review request.
LowerCase(ch) ==
    IF ch \in {"A", "E", "M", "O", "P"}
    THEN CHOOSE l \in {"a", "e", "m", "o", "p"} :
           << ch, l >> \in {<< "A", "a" >>, << "E", "e" >>, << "M", "m" >>,
                            << "O", "o" >>, << "P", "p" >>}
    ELSE ch

SameIgnoringCase(s, t) ==
    [i \in 1..Len(s) |-> LowerCase(s[i])] = [i \in 1..Len(t) |-> LowerCase(t[i])]

PassesOrgFilter(n, c) ==
    /\ c.IncludeOrg = EmptyStr \/ SameIgnoringCase(n.Repository.Owner, c.IncludeOrg)
    /\ c.ExcludeOrg = EmptyStr \/ ~SameIgnoringCase(n.Repository.Owner, c.ExcludeOrg)

IsReviewRequestedPR(n) ==
    n.Reason = "review_requested" /\ n.Subject.Type = "PullRequest"

DirectlyRequested(users, lg) ==
    \E i \in 1..Len(users) : SameIgnoringCase(users[i], lg)

\* The five-step table: the action and the reason, first match wins.
DecisionTable(n, rv, lg, c) ==
    CASE ~PassesOrgFilter(n, c) -> << ActionSkip, "filtered by org" >>
      [] PassesOrgFilter(n, c) /\ ~IsReviewRequestedPR(n) ->
           << ActionSkip, "not a review-requested PR" >>
      [] PassesOrgFilter(n, c) /\ IsReviewRequestedPR(n) /\ rv.nil ->
           << ActionSkip, "no reviewer data" >>
      [] PassesOrgFilter(n, c) /\ IsReviewRequestedPR(n) /\ ~rv.nil
           /\ DirectlyRequested(rv.Users, lg) ->
           << ActionKeep, "direct review request" >>
      [] OTHER -> << ActionMute, "team-only review request" >>

\* C3: every call of Classify returns the decision of the five-step table
\* (action and reason, for the notification it was given), and the decision is
\* the same whatever the team list is.
C3_ClassifyTable ==
    call.op = "Classify" =>
      /\ call.out.Notification = call.n
      /\ << call.out.Action, call.out.Reason >>
           = DecisionTable(call.n, call.reviewers, login, cfg)
      /\ ~call.reviewers.nil =>
           \A t \in TeamLists :
             Classify(call.n, [call.reviewers EXCEPT !.Teams = t], login, cfg).Action
               = call.out.Action

\* A review request with no users and no teams requested was classified Mute.
C3_Witness ==
    /\ call.op = "Classify"
    /\ ~call.reviewers.nil
    /\ call.reviewers.Users = << >> /\ call.reviewers.Teams = << >>
    /\ call.out.Action = ActionMute

\* C5: NeedsReviewerLookup is true exactly for the review-requested pull
\* requests that pass the org filter; where it is false Classify skips whatever
\* the reviewers are; where it is true Classify skips with "no reviewer data"
\* without reviewers and keeps or mutes with them.
C5_LookupConsistent ==
    call.op = "NeedsReviewerLookup" =>
      /\ call.out = (PassesOrgFilter(call.n, cfg) /\ IsReviewRequestedPR(call.n))
      /\ ~call.out =>
           \A rv \in PureReviewers : Classify(call.n, rv, login, cfg).Action = ActionSkip
      /\ call.out =>
           /\ Classify(call.n, Nil, login, cfg).Action = ActionSkip
           /\ Classify(call.n, Nil, login, cfg).Reason = "no reviewer data"
           /\ \A rv \in PureReviewers \ {Nil} :
                Classify(call.n, rv, login, cfg).Action \in {ActionKeep, ActionMute}

\* NeedsReviewerLookup said no to a review-requested pull request, for its org.
C5_Witness ==
    /\ call.op = "NeedsReviewerLookup"
    /\ IsReviewRequestedPR(call.n)
    /\ ~call.out

\* C6: MatchesOrgFilter is the conjunction of the include condition and the
\* exclude condition, both ignoring case; with no filter everything passes, and
\* an organization that is both included and excluded is rejected.
C6_OrgFilter ==
    call.op = "MatchesOrgFilter" =>
      /\ call.out = PassesOrgFilter(call.n, cfg)
      /\ (cfg.IncludeOrg = EmptyStr /\ cfg.ExcludeOrg = EmptyStr) => call.out
      /\ (/\ cfg.IncludeOrg # EmptyStr
          /\ SameIgnoringCase(call.n.Repository.Owner, cfg.IncludeOrg)
          /\ SameIgnoringCase(call.n.Repository.Owner, cfg.ExcludeOrg)) => ~call.out

\* An organization that matches include-org and, in another case, exclude-org
\* was rejected.
C6_Witness ==
    /\ call.op = "MatchesOrgFilter"
    /\ cfg.IncludeOrg # EmptyStr
    /\ cfg.ExcludeOrg # cfg.IncludeOrg
    /\ SameIgnoringCase(call.n.Repository.Owner, cfg.IncludeOrg)
    /\ SameIgnoringCase(call.n.Repository.Owner, cfg.ExcludeOrg)
    /\ ~call.out

\* The cycle is over and its list succeeded.
CycleDone == pc \in {"sleep", "exit"} /\ listed = "ok"

HasMuteDecision == \E i \in 1..Len(decisions) : decisions[i].Action = ActionMute

\* C1: without the apply flag no cycle, of a single run or of the daemon, calls
\* MarkThreadRead or IgnoreThread: no mutation call is logged, the program is
\* never inside one, and every request it sends is a GET.
C1_DryRunNeverMutates ==
    ~apply =>
      /\ mutLog = << >>
      /\ pc \notin {"mark", "mute"}
      /\ \A k \in 1..Len(http.sent) : http.sent[k].method = "GET"

\* A dry-run daemon cycle ended with a Mute decision.
C1_Witness == ~apply /\ daemon /\ CycleDone /\ HasMuteDecision

\* C2: every thread on which a mutation was called in this cycle belongs to a
\* notification that passes the org filter, is a review-requested pull request,
\* and whose reference was fetched successfully in this cycle with a user list
\* that does not hold the login, ignoring case.
C2_MutatedOnlyIfTeamOnly ==
    \A k \in 1..Len(mutLog) :
      \E i \in 1..Len(notifications) :
        LET n == notifications[i] IN
        /\ n.ID = mutLog[k].id
        /\ PassesOrgFilter(n, cfg)
        /\ IsReviewRequestedPR(n)
        /\ \E f \in 1..Len(fetchLog) :
             /\ fetchLog[f].url = n.Subject.URL
             /\ fetchLog[f].state = "ok"
             /\ ~DirectlyRequested(fetchLog[f].users, login)

\* A thread was muted in a cycle in which another lookup had failed.
C2_Witness ==
    /\ \E k \in 1..Len(mutLog) : mutLog[k].op = "muteThread" /\ mutLog[k].state = "ok"
    /\ \E f \in 1..Len(fetchLog) : fetchLog[f].state = "failed"

\* C4: within one cycle GetRequestedReviewers is called at most once for each
\* subject reference, also after a failed first call.
C4_FetchAtMostOncePerReference ==
    \A i, j \in 1..Len(fetchLog) : i # j => fetchLog[i].url # fetchLog[j].url

\* C7: the decisions are the notifications' decisions, one each and in order:
\* while the loop runs decision i is notification i's for every notification
\* passed, and when the cycle is over there is one for each notification listed.
C7_OneDecisionPerNotification ==
    /\ Len(decisions) <= Len(notifications)
    /\ \A i \in 1..Len(decisions) : decisions[i].Notification = notifications[i]
    /\ pc = "loop" => Len(decisions) = idx - 1
    /\ CycleDone =>
         /\ Len(decisions) = Len(result.Notifications)
         /\ \A i \in 1..Len(decisions) :
              decisions[i].Notification = result.Notifications[i]

\* A cycle of two notifications ended after a failed lookup and a failed mutation.
C7_Witness ==
    /\ CycleDone
    /\ Len(decisions) = 2
    /\ errCount > 0
    /\ \E f \in 1..Len(fetchLog) : fetchLog[f].state = "failed"

\* C8: when the cycle is over the skip, keep and mute counts add up to the
\* number of notifications listed, which is the number of decisions (scanned).
C8_CountsPartition ==
    CycleDone =>
      LET c == CountByAction(decisions) IN
      /\ c.skip + c.keep + c.mute = Len(result.Notifications)
      /\ Len(decisions) = Len(result.Notifications)

\* A cycle ended with one notification kept and one muted.
C8_Witness ==
    /\ CycleDone
    /\ CountByAction(decisions).keep = 1
    /\ CountByAction(decisions).mute = 1

\* The words of the retry claims: a throttled response, and the pause it asks for.
Throttled(r) ==
    /\ ~r.err
    /\ r.StatusCode = 429 \/ (r.StatusCode = 403 /\ r.RetryAfter # EmptyStr)

DecimalDigits == << "0", "1", "2", "3", "4", "5", "6", "7", "8", "9" >>

IsDecimal(s) ==
    s # << >> /\ \A i \in 1..Len(s) : \E d \in 1..10 : DecimalDigits[d] = s[i]

RECURSIVE DecimalValue(_)
DecimalValue(s) ==
    IF s = << >> THEN 0
    ELSE 10 * DecimalValue(SubSeq(s, 1, Len(s) - 1))
         + ((CHOOSE d \in 1..10 : DecimalDigits[d] = s[Len(s)]) - 1)

RetryAfterSeconds(r) == IF IsDecimal(r.RetryAfter) THEN DecimalValue(r.RetryAfter) ELSE 60

\* The failure of the operation in flight is passed to its caller.
FailureSurfaced ==
    /\ pc = "list" => listed' = "err"
    /\ pc = "reviewers" => fetchLog'[Len(fetchLog)].state = "failed"
    /\ pc \in {"mark", "mute"} =>
         /\ mutLog'[Len(mutLog)].state = "failed"
         /\ errCount' = errCount + 1

\* The exchange in flight is over: nothing is in flight, or another request is.
NotRetried ==
    /\ http'.phase \in {"idle", "wait"}
    /\ http'.phase = "wait" =>
         /\ http'.attempt = 0
         /\ Len(http'.sent) = 1
         /\ http'.sent[1] # http.sent[1]

C9_Bounded ==
    /\ http.attempt \in {0, 1}
    /\ Len(http.sent) <= 2
    /\ Len(http.pauses) <= 1
    /\ http.phase # "idle" =>
         /\ Len(http.sent) = http.attempt + 1
         /\ Len(http.pauses) = IF http.phase = "pause" THEN 1 ELSE http.attempt

C9_Step ==
    http' # http =>
      /\ (http.phase = "got" /\ http.attempt = 0 /\ Throttled(http.resp)) =>
           /\ http'.phase = "pause"
           /\ http'.pauses = << RetryAfterSeconds(http.resp) >>
           /\ http'.sent = http.sent
           /\ pc' = pc
      /\ (http.phase = "got" /\ ~(http.attempt = 0 /\ Throttled(http.resp))) =>
           NotRetried
      /\ (http.phase = "got" /\ http.attempt = 1 /\ Throttled(http.resp)) =>
           FailureSurfaced
      /\ http.phase = "pause" =>
           /\ http'.phase = "wait"
           /\ http'.attempt = 1
           /\ Len(http'.sent) = 2
           /\ http'.pauses = http.pauses
           /\ pc' = pc

\* C9: for every request (a page, a reviewer fetch, a mark-read, a mute) a first
\* response is followed by a pause exactly when it is 429, or 403 with a
\* Retry-After; the pause lasts the Retry-After seconds, or 60 when it is absent
\* or no number; after the pause the request is sent once more; a throttled second
\* response is passed on as a failure without pause or retry; no request is sent
\* more than twice and no response that is not throttled is followed by a retry.
C9_RetryOnceOnThrottle == [][C9_Step]_vars /\ []C9_Bounded

\* The retry of a mute request was answered 429 again.
C9_Witness ==
    /\ pc = "mute"
    /\ http.phase = "got"
    /\ http.attempt = 1
    /\ Throttled(http.resp)
    /\ http.pauses = << 2 >>

\* C10: the request sent after the pause is the request that was throttled
\* (method, URL, headers and body), and one pause lies between the two.
C10_RetrySendsSameRequest ==
    Len(http.sent) = 2 =>
      /\ http.sent[2] = http.sent[1]
      /\ Len(http.pauses) = 1

\* The words of the pagination claim: the URL of page p, the ids of a list.
PageURL(p) ==
    << "https:", "/", "/", "api.github.com", "/", "notifications?per_page=50&page=" >>
    \o << DecimalDigits[p + 1] >>

IDs(ns) == [i \in 1..Len(ns) |-> ns[i].ID]

GhIDs(gns) == [i \in 1..Len(gns) |-> gns[i].id]

Times(log, x) == Cardinality({k \in 1..Len(log) : log[k] = x})

\* While the list runs: the first request is for page 1, every later one is for
\* the page before it again or for the page after it, no page is requested more
\* than twice, the last request is for the current page, and every page before
\* the current one held a notification.
C11_Pages ==
    pc = "list" =>
      /\ pageLog # << >>
      /\ pageLog[1] = PageURL(1)
      /\ pageLog[Len(pageLog)] = PageURL(page)
      /\ http.sent[Len(http.sent)].url = PageURL(page)
      /\ \A k \in 1..(Len(pageLog) - 1) :
           \E q \in 1..page :
             /\ pageLog[k] = PageURL(q)
             /\ pageLog[k + 1] \in {PageURL(q), PageURL(q + 1)}
      /\ \A q \in 1..page : Times(pageLog, PageURL(q)) \in {1, 2}
      /\ Len(all) >= page - 1

C11_Step ==
    pc = "list" =>
      /\ (http.phase = "pause" /\ http' # http) =>
           /\ pageLog' = Append(pageLog, PageURL(page))
           /\ pc' = "list" /\ page' = page /\ all' = all
      /\ (http.phase = "got" /\ http' # http /\ ~http.resp.err
            /\ http.resp.StatusCode = 200 /\ http.resp.body.ok) =>
           IF http.resp.body.value = << >>
           THEN /\ listed' = "ok"
                /\ IDs(result'.Notifications) = IDs(all)
                /\ ~result'.NotModified
                /\ http'.phase = "idle"
           ELSE /\ pc' = "list"
                /\ page' = page + 1
                /\ pageLog' = Append(pageLog, PageURL(page + 1))
                /\ IDs(all') = IDs(all) \o GhIDs(http.resp.body.value)
                /\ http'.phase = "wait" /\ http'.attempt = 0

\* C11: ListUnreadNotifications requests pages 1, 2, 3, ... in order; a throttled
\* page is requested once more itself before the next one, each page at most
\* twice; a non-empty page is appended to the pages before it and the next page
\* is requested with a fresh retry; the first empty page ends the list, which
\* returns the notifications of the pages before it in order.
C11_Pagination == [][C11_Step]_vars /\ []C11_Pages

\* Page 1 was throttled and retried, and so was page 2.
C11_Witness ==
    /\ pc = "list"
    /\ pageLog = << PageURL(1), PageURL(1), PageURL(2), PageURL(2) >>
    /\ Len(all) = 1

\* The words of the not-modified claim: what a report says.
Says(text) == \E k \in 1..Len(report.text) : report.text[k] = text

\* C12: a cycle whose list was answered "not modified" ends with no notification,
\* no reviewer fetch, no decision and no mutation, and its report does not say
\* that there are no unread notifications; a cycle whose list succeeded with no
\* notification does not report "not modified".
C12_NotModifiedReportedDistinctly ==
    /\ (CycleDone /\ result.NotModified) =>
         /\ result.Notifications = << >>
         /\ notifications = << >> /\ decisions = << >>
         /\ fetchLog = << >> /\ mutLog = << >>
         /\ ~Says("No unread notifications.")
    /\ (CycleDone /\ ~result.NotModified /\ result.Notifications = << >>) =>
         ~Says("  cycle: not modified\n")

\* The words of the polling claims: the token and the interval (a whole number
\* of seconds with an optional sign, 0 when there is none) of the first page of
\* the list that is running.
IfModifiedSince(req) == {h \in req.headers : h[1] = "If-Modified-Since"}

HeaderInterval(r) ==
    LET h == r.PollInterval IN
    IF IsDecimal(h) THEN DecimalValue(h)
    ELSE IF Len(h) > 1 /\ h[1] = "-" /\ IsDecimal(Tail(h)) THEN 0 - DecimalValue(Tail(h))
    ELSE IF Len(h) > 1 /\ h[1] = "+" /\ IsDecimal(Tail(h)) THEN DecimalValue(Tail(h))
    ELSE 0

FirstPageToken == IF page = 1 THEN http.resp.LastModified ELSE result.LastModified

FirstPageInterval == IF page = 1 THEN HeaderInterval(http.resp) ELSE result.PollInterval

\* Every page request carries If-Modified-Since exactly when it is for page 1
\* and the stored token is not empty, and then it carries the stored token.
C13_TokenSent ==
    pc = "list" =>
      \A k \in 1..Len(http.sent) :
        IfModifiedSince(http.sent[k]) =
          IF page = 1 /\ lastModified # EmptyStr
          THEN {<< "If-Modified-Since", lastModified >>}
          ELSE {}

C13_Step ==
    /\ (lastModified' # lastModified \/ pollInterval' # pollInterval) =>
         pc = "list" /\ http.phase = "got" /\ listed' = "ok"
    /\ (pc = "list" /\ http.phase = "got" /\ listed' = "ok") =>
         /\ lastModified' = IF FirstPageToken # EmptyStr THEN FirstPageToken
                            ELSE lastModified
         /\ pollInterval' = IF FirstPageInterval > 0 THEN FirstPageInterval
                            ELSE pollInterval
    /\ (pc = "list" /\ http.phase = "got" /\ pc' = "list" /\ page' # page) =>
         /\ result'.LastModified = FirstPageToken
         /\ result'.PollInterval = FirstPageInterval

\* C13: If-Modified-Since is sent only on page 1 and only when the stored token
\* is not empty; the stored token and poll interval change only when a list
\* returns successfully, and then to the Last-Modified and the positive
\* X-Poll-Interval of that list's first page, each staying as it was when the
\* first page had none; the headers of later pages change nothing.
C13_PollingBookkeeping == [][C13_Step]_vars /\ []C13_TokenSent

\* A successful cycle whose first page had neither header kept the token and the
\* interval learned in an earlier cycle.
C13_Witness ==
    /\ CycleDone
    /\ result.LastModified = EmptyStr /\ result.PollInterval = 0
    /\ lastModified = << "t1" >>
    /\ pollInterval = 30

\* The words of the list-failure claim: the cycle's report is an error report.
ErrorReported ==
    IF daemon THEN report.stream = "log" /\ report.text[1] = "cycle error: "
    ELSE report.stream = "stderr" /\ report.text[1] = "Error: " /\ exitCode = 1

\* A response with which ListUnreadNotifications fails: no response, a throttled
\* retry, a status other than 200 and 304, or a 200 whose body does not decode.
ListFailure(r, attempt) ==
    \/ r.err
    \/ ~(attempt = 0 /\ Throttled(r)) /\ r.StatusCode \notin {200, 304}
    \/ r.StatusCode = 200 /\ ~r.body.ok

\* After a failed list the cycle is over with nothing classified, fetched or
\* mutated, and its report is an error.
C14_Aborted ==
    listed = "err" =>
      /\ pc \in {"sleep", "exit", "cycle"}
      /\ notifications = << >> /\ decisions = << >>
      /\ fetchLog = << >> /\ mutLog = << >>
      /\ errCount = 0
      /\ ErrorReported

C14_Step ==
    (pc = "list" /\ http.phase = "got" /\ http' # http
       /\ ListFailure(http.resp, http.attempt)) =>
      /\ listed' = "err"
      /\ pc' = IF daemon THEN "sleep" ELSE "exit"
      /\ lastModified' = lastModified
      /\ pollInterval' = pollInterval
      /\ http'.phase = "idle"

\* C14: a page answered with a transport error, a status that is no success, an
\* undecodable body or a second throttling, on any page, ends the cycle at once:
\* nothing of it is classified, fetched or mutated, the cycle reports an error
\* (exit status 1 for a single run), and the daemon's token and poll interval
\* are what they were before the cycle.
C14_ListFailureAbortsCycle == [][C14_Step]_vars /\ []C14_Aborted

\* A daemon cycle failed on page 2, after a first page that carried a new token
\* and interval, and the values of an earlier cycle are still stored.
C14_Witness ==
    /\ daemon /\ pc = "sleep" /\ listed = "err"
    /\ report.text[2] = "list notifications page " /\ report.text[3] = "2"
    /\ lastModified = << "t1" >>
    /\ pollInterval = 30

\* The words of the lookup-failure claim: the notification in hand, a reference
\* that is no pull request's, a response with which the lookup fails.
Current == notifications[idx]

IsPullReference(url) ==
    /\ Len(url) > 13
    /\ SubSeq(url, 1, 7) = << "https:", "/", "/", "api.github.com", "/", "repos", "/" >>
    /\ url[9] = "/" /\ url[11] = "/" /\ url[12] = "pulls" /\ url[13] = "/"
    /\ IsDecimal(SubSeq(url, 14, Len(url)))

LookupFailure(r, attempt) ==
    \/ r.err
    \/ ~(attempt = 0 /\ Throttled(r)) /\ (r.StatusCode # 200 \/ ~r.body.ok)

\* The step in which a lookup fails: before any request, or on a response.
LookupFails ==
    \/ /\ pc = "loop" /\ idx <= Len(notifications) /\ idx' # idx
       /\ PassesOrgFilter(Current, cfg) /\ IsReviewRequestedPR(Current)
       /\ Current.Subject.URL \notin DOMAIN reviewersByURL
       /\ ~IsPullReference(Current.Subject.URL)
    \/ /\ pc = "reviewers" /\ http.phase = "got" /\ http' # http
       /\ LookupFailure(http.resp, http.attempt)

C15_Step ==
    LookupFails =>
      /\ decisions' = Append(decisions, Decision(Current, ActionSkip, "no reviewer data"))
      /\ pc' = "loop" /\ idx' = idx + 1
      /\ notifications' = notifications
      /\ reviewersByURL' = reviewersByURL
      /\ errCount' = errCount
      /\ mutLog' = mutLog

\* Every decision is the table's for its notification, with the reviewers stored
\* for its reference or with none.
C15_Decisions ==
    \A i \in 1..Len(decisions) :
      LET n == notifications[i] IN
      /\ decisions[i].Notification = n
      /\ << decisions[i].Action, decisions[i].Reason >> \in
           {DecisionTable(n, Nil, login, cfg),
            DecisionTable(n, MapGet(reviewersByURL, n.Subject.URL), login, cfg)}
      /\ (\A f \in 1..Len(fetchLog) :
            fetchLog[f].url = n.Subject.URL => fetchLog[f].state = "failed") =>
           << decisions[i].Action, decisions[i].Reason >> =
             DecisionTable(n, Nil, login, cfg)

\* C15: a reviewer lookup that fails (the reference does not parse, no response,
\* a status other than 200, an undecodable body, throttling again on the retry)
\* gives its notification the decision Skip "no reviewer data" and the loop goes
\* on with the next notification; the failure changes neither the reviewers
\* stored, nor the error count, nor the mutations made, so every other
\* notification gets the decision and the mutation it would get without it.
C15_LookupFailureIsLocal == [][C15_Step]_vars /\ []C15_Decisions

\* After a failed lookup for the first notification the second one was muted.
C15_Witness ==
    /\ CycleDone
    /\ Len(decisions) = 2
    /\ decisions[1].Reason = "no reviewer data"
    /\ fetchLog[1].state = "failed"
    /\ decisions[2].Action = ActionMute
    /\ \E k \in 1..Len(mutLog) :
         /\ mutLog[k].op = "muteThread" /\ mutLog[k].state = "ok"
         /\ mutLog[k].id = decisions[2].Notification.ID

\* The words of the mutation claims: the calls made on a thread, in order.
CallsOn(id) == SelectSeq(mutLog, LAMBDA e : e.id = id)

Failed(id) == \E k \in 1..Len(mutLog) : mutLog[k].id = id /\ mutLog[k].state = "failed"

MuteDecisions == {i \in 1..Len(decisions) : decisions[i].Action = ActionMute}

\* C16: the error count is the number of failed mutation calls, of which a
\* decision has at most one; with the apply flag every Mute decision has its
\* mark-read attempted, whatever failed before it; and when the cycle is over
\* every notification has its decision and the error count is the number of
\* Mute decisions one of whose calls failed.
C16_MutationFailuresIsolated ==
    /\ errCount = Cardinality({k \in 1..Len(mutLog) : mutLog[k].state = "failed"})
    /\ \A i \in MuteDecisions :
         Cardinality({k \in 1..Len(mutLog) :
                        /\ mutLog[k].id = decisions[i].Notification.ID
                        /\ mutLog[k].state = "failed"}) <= 1
    /\ apply =>
         \A i \in MuteDecisions :
           /\ CallsOn(decisions[i].Notification.ID) # << >>
           /\ CallsOn(decisions[i].Notification.ID)[1].op = "markRead"
    /\ CycleDone =>
         /\ Len(decisions) = Len(result.Notifications)
         /\ errCount =
              Cardinality({i \in MuteDecisions : Failed(decisions[i].Notification.ID)})

\* The first of two Mute decisions failed to be marked read and the second was
\* marked read and muted.
C16_Witness ==
    /\ CycleDone
    /\ Len(decisions) = 2
    /\ MuteDecisions = {1, 2}
    /\ errCount = 1
    /\ Failed(decisions[1].Notification.ID)
    /\ Len(CallsOn(decisions[1].Notification.ID)) = 1
    /\ Len(CallsOn(decisions[2].Notification.ID)) = 2
    /\ ~Failed(decisions[2].Notification.ID)

Ops(log) == [k \in 1..Len(log) |-> log[k].op]

\* C17 as stated: with the apply flag, when the cycle is over every Mute
\* decision has had mark-read and then mute called on its thread.
C17_BothStepsForEveryMute ==
    (apply /\ CycleDone) =>
      \A i \in MuteDecisions :
        Ops(CallsOn(decisions[i].Notification.ID)) = << "markRead", "muteThread" >>

\* C17, amended: with the apply flag every Mute decision has mark-read called on
\* its thread first, whatever happened to other decisions; mute is called next
\* exactly when mark-read succeeded, and never without it; nothing else is
\* called; and the decision counts as an error exactly when its one failing call
\* failed.
C17_MarkReadThenMute ==
    /\ \A k \in 1..Len(mutLog) :
         mutLog[k].op = "muteThread" =>
           /\ k > 1
           /\ mutLog[k - 1] = [op |-> "markRead", id |-> mutLog[k].id, state |-> "ok"]
    /\ (apply /\ CycleDone) =>
         /\ \A i \in MuteDecisions :
              LET calls == CallsOn(decisions[i].Notification.ID) IN
              /\ Ops(calls) \in {<< "markRead" >>, << "markRead", "muteThread" >>}
              /\ Len(calls) = 2 <=> calls[1].state = "ok"
              /\ calls[Len(calls)].state \in {"ok", "failed"}
              /\ Failed(decisions[i].Notification.ID) <=> calls[Len(calls)].state = "failed"
         /\ \A k \in 1..Len(mutLog) :
              \E i \in MuteDecisions : decisions[i].Notification.ID = mutLog[k].id

\* Of two Mute decisions the first failed to be marked read and was not muted,
\* the second was marked read and failed to be muted.
C17_Witness ==
    /\ apply /\ CycleDone
    /\ MuteDecisions = {1, 2}
    /\ Ops(mutLog) = << "markRead", "markRead", "muteThread" >>
    /\ mutLog[1].state = "failed"
    /\ mutLog[3].state = "failed"
    /\ errCount = 2

\* The daemon has returned only from the select, on a signal, with status 0.
C18_ExitStatus == pc = "exit" => exitCode = 0

C18_Step ==
    /\ pc' = "exit" /\ pc # "exit" =>
         /\ pc = "sleep" /\ sig
         /\ exitCode' = 0
    /\ (pc \in {"list", "loop", "reviewers", "mark", "mute"} /\ pc' # pc) =>
         pc' \in {"list", "loop", "reviewers", "mark", "mute", "sleep"}
    /\ (pc = "sleep" /\ pc' # pc /\ pc' # "exit") =>
         /\ timer
         /\ pc' = "cycle"
         /\ pollInterval' = pollInterval

\* Every wait between cycles ends, with the next cycle or with the return.
C18_NextCycle == (daemon /\ pc = "sleep") ~> (pc \in {"cycle", "exit"})

\* C18: whatever a daemon cycle meets (a failed list, failed lookups, failed
\* mutations, not modified, an empty inbox) it ends in the wait between cycles;
\* the wait ends, with the next cycle once the poll interval has passed or with
\* the return; the daemon returns only out of that wait, only on a signal, and
\* with status 0.
C18_DaemonStopsOnlyOnSignal ==
    [][C18_Step]_vars /\ []C18_ExitStatus /\ C18_NextCycle

\* The daemon is in a second cycle after a cycle that counted a mutation error.
C18_Witness ==
    /\ daemon /\ pc = "cycle" /\ exitCode = -1
    /\ listed = "ok" /\ errCount = 1

InCycle == pc \in {"list", "loop", "reviewers", "mark", "mute"}

C19_Step ==
    /\ (pc = "sleep" /\ sig /\ pc' # pc) => pc' = "exit" /\ exitCode' = 0
    /\ (InCycle /\ pc' # pc) => pc' \in {"list", "loop", "reviewers", "mark", "mute", "sleep"}
    /\ (InCycle /\ pc' = "sleep") => mutLog = << >> \/ mutLog'[Len(mutLog')].state # "pending"

\* C19: once a signal has been delivered the wait between cycles ends with the
\* daemon's return and never with another cycle, whether or not the timer has
\* expired as well; a signal delivered during a cycle leaves the cycle running to
\* its end, no mutation cut short, and the daemon returns from the wait after.
C19_ShutdownOrdering == [][C19_Step]_vars

\* The pause ends only by time.Sleep returning after the whole duration, with
\* the request sent again.
C20_Step ==
    (http.phase = "pause" /\ sig /\ http' # http) => http'.phase # "wait"

\* C20: a retry-after pause (of a page, a reviewer fetch, a mark-read or a mute)
\* during which a signal has been delivered is cut short: it does not end by
\* running its whole duration and sending the request again.
C20_PauseCancellable == [][C20_Step]_vars

\* The interval is positive, and the select waits for it.
C21_Positive ==
    /\ pollInterval > 0
    /\ (daemon /\ pc = "sleep") => wait = pollInterval

C21_Step ==
    /\ (pc = "list" /\ http.phase = "got" /\ listed' = "ok") =>
         pollInterval' = IF FirstPageInterval > 0 THEN FirstPageInterval ELSE pollInterval
    /\ ~(pc = "list" /\ http.phase = "got" /\ listed' = "ok") =>
         pollInterval' = pollInterval

\* C21: the daemon's select waits for the poll interval, which is 60 seconds at
\* the start, becomes the hint of the first page of every successful list that
\* carries a positive one (a not-modified answer included), and stays as it is
\* after any other list: failed, without a hint, or with a hint that is zero,
\* negative or no number.  It is always positive.
C21_Cadence == [][C21_Step]_vars /\ []C21_Positive

\* The daemon waits 30 seconds after a cycle whose not-modified answer carried a
\* negative hint: the hint of an earlier cycle is still in use.
C21_Witness ==
    /\ daemon /\ pc = "sleep" /\ listed = "ok"
    /\ result.NotModified
    /\ result.PollInterval < 0
    /\ wait = 30

MutationFailed == \E k \in 1..Len(mutLog) : mutLog[k].state = "failed"

LookupFailed == \E f \in 1..Len(fetchLog) : fetchLog[f].state = "failed"

\* C22: a single run returns 1 when its list failed or one of its mutation calls
\* failed, and 0 otherwise: after a dry run, an empty or unmodified inbox, or
\* failed reviewer lookups without a failed mutation.
C22_SingleRunExitStatus ==
    (~daemon /\ pc = "exit") =>
      exitCode = IF listed = "err" \/ MutationFailed THEN 1 ELSE 0

\* A single run with the apply flag returned 0 after a failed lookup and a
\* successful mute.
C22_Witness ==
    /\ ~daemon /\ pc = "exit" /\ apply
    /\ exitCode = 0
    /\ LookupFailed
    /\ \E k \in 1..Len(mutLog) : mutLog[k].op = "muteThread" /\ mutLog[k].state = "ok"

\* The words of the parsing claim: a segment, a positive integer, and the parts
\* of a reference of the shape <root>/repos/<owner>/<repo>/pulls/<number>.
IsSegment(x) == x # "/"

IsPositiveInteger(s) == IsDecimal(s) /\ DecimalValue(s) > 0

HasPullShape(url) ==
    /\ Len(url) > 13
    /\ SubSeq(url, 1, 7) = << "https:", "/", "/", "api.github.com", "/", "repos", "/" >>
    /\ IsSegment(url[8]) /\ url[9] = "/"
    /\ IsSegment(url[10]) /\ url[11] = "/"
    /\ url[12] = "pulls" /\ url[13] = "/"
    /\ IsPositiveInteger(SubSeq(url, 14, Len(url)))

\* C23: ParseSubjectURL returns a PRRef, and then the reference's owner,
\* repository and number, exactly for the references of the shape
\* https://api.github.com/repos/<owner>/<repo>/pulls/<positive-integer>; for
\* every other reference it returns an error.
C23_ParseExactShape ==
    call.op = "ParseSubjectURL" =>
      IF HasPullShape(call.url)
      THEN /\ ~call.out.err
           /\ call.out.Owner = << call.url[8] >>
           /\ call.out.Repo = << call.url[10] >>
           /\ call.out.Number = DecimalValue(SubSeq(call.url, 14, Len(call.url)))
      ELSE call.out.err

\* The words of the lookup claim: a notification whose classification depends
\* on reviewer data.
NeedsLookup(n) == PassesOrgFilter(n, cfg) /\ IsReviewRequestedPR(n)

FetchesFor(url) == {f \in 1..Len(fetchLog) : fetchLog[f].url = url}

\* C24: every call of GetRequestedReviewers in a cycle is for the reference of a
\* notification of the cycle that needs a lookup; every classified notification
\* that needs a lookup has had a call for its reference; and such a notification
\* is Skip "no reviewer data" only when a call for its reference failed.
C24_LookupsNeededAndMade ==
    /\ \A f \in 1..Len(fetchLog) :
         \E i \in 1..Len(notifications) :
           /\ i <= Len(decisions) + 1
           /\ notifications[i].Subject.URL = fetchLog[f].url
           /\ NeedsLookup(notifications[i])
    /\ \A i \in 1..Len(decisions) :
         LET n == decisions[i].Notification IN
         NeedsLookup(n) =>
           /\ FetchesFor(n.Subject.URL) # {}
           /\ decisions[i].Action = ActionSkip =>
                /\ decisions[i].Reason = "no reviewer data"
                /\ \E f \in FetchesFor(n.Subject.URL) : fetchLog[f].state = "failed"

\* A review request and a mention of the same pull request were classified with
\* one lookup, made for the review request.
C24_Witness ==
    /\ CycleDone
    /\ Len(decisions) = 2
    /\ decisions[1].Notification.Subject.URL = decisions[2].Notification.Subject.URL
    /\ ~NeedsLookup(decisions[1].Notification)
    /\ NeedsLookup(decisions[2].Notification)
    /\ Len(fetchLog) = 1
    /\ fetchLog[1].state = "ok"

CallsOf(op, id) == {k \in 1..Len(mutLog) : mutLog[k].op = op /\ mutLog[k].id = id}

\* C25: every muteThread call of a cycle comes after a markRead call on the same
\* thread that succeeded; a mute request is in flight only then; and no thread
\* has more than one markRead call or more than one muteThread call.
C25_MuteOnlyAfterMarkRead ==
    /\ \A k \in 1..Len(mutLog) :
         mutLog[k].op = "muteThread" =>
           \E j \in 1..(k - 1) :
             /\ mutLog[j].op = "markRead"
             /\ mutLog[j].id = mutLog[k].id
             /\ mutLog[j].state = "ok"
    /\ \A k \in 1..Len(http.sent) :
         http.sent[k].method = "PUT" =>
           /\ mutLog # << >>
           /\ mutLog[Len(mutLog)].op = "muteThread"
           /\ CallsOf("markRead", mutLog[Len(mutLog)].id) # {}
    /\ \A i \in 1..Len(decisions) :
         LET id == decisions[i].Notification.ID IN
         /\ Cardinality(CallsOf("markRead", id)) <= 1
         /\ Cardinality(CallsOf("muteThread", id)) <= 1
         /\ decisions[i].Action # ActionMute => CallsOn(id) = << >>

\* Two threads were each marked read and then muted, the second after its
\* mark-read had been throttled and retried.
C25_Witness ==
    /\ pc = "mute"
    /\ Ops(mutLog) = << "markRead", "muteThread", "markRead", "muteThread" >>
    /\ mutLog[1].id # mutLog[3].id
    /\ http.phase = "wait" /\ http.attempt = 1

\* The words of the phased procedure: the reviewer data a reference resolves to,
\* which is the outcome of the first lookup made for it, kept for the cycle.
FirstFetch(url) ==
    IF FetchesFor(url) = {} THEN 0
    ELSE CHOOSE f \in FetchesFor(url) : \A g \in FetchesFor(url) : f <= g

Resolved(url) ==
    IF FirstFetch(url) = 0 \/ fetchLog[FirstFetch(url)].state # "ok" THEN Nil
    ELSE [nil |-> FALSE, Users |-> fetchLog[FirstFetch(url)].users, Teams |-> << >>]

MarkReadCalls == SelectSeq(mutLog, LAMBDA e : e.op = "markRead")

MuteDecisionIDs ==
    LET muted == SelectSeq(decisions, LAMBDA d : d.Action = ActionMute)
    IN [k \in 1..Len(muted) |-> muted[k].Notification.ID]

\* C26: when the cycle is over its decisions are those of the phased procedure:
\* every notification's decision is the table's against the data its reference
\* resolved to (so notifications sharing a reference are decided against the
\* same data), each reference was looked up once, the mutation calls are those
\* of the Mute decisions in their order, and the error count is the number of
\* Mute decisions with a failed call.
C26_InterleavedEqualsPhased ==
    CycleDone =>
      /\ Len(decisions) = Len(result.Notifications)
      /\ \A i \in 1..Len(decisions) :
           LET n == result.Notifications[i] IN
           /\ decisions[i].Notification = n
           /\ << decisions[i].Action, decisions[i].Reason >> =
                DecisionTable(n, Resolved(n.Subject.URL), login, cfg)
      /\ \A i, j \in 1..Len(decisions) :
           (/\ NeedsLookup(decisions[i].Notification)
            /\ NeedsLookup(decisions[j].Notification)
            /\ decisions[i].Notification.Subject.URL = decisions[j].Notification.Subject.URL)
           => decisions[i].Action = decisions[j].Action
      /\ apply => GhIDs(MarkReadCalls) = MuteDecisionIDs
      /\ errCount = Cardinality({i \in MuteDecisions : Failed(decisions[i].Notification.ID)})

\* The words of the counting claim: the Mute decisions whose thread had mark-read
\* and mute both called and both succeed, and the "muted" figure of a report.
FullyMuted ==
    {i \in MuteDecisions :
       LET calls == CallsOn(decisions[i].Notification.ID) IN
       /\ Ops(calls) = << "markRead", "muteThread" >>
       /\ \A k \in 1..Len(calls) : calls[k].state = "ok"}

ReportsMuted(x) ==
    \E k \in 1..Len(report.text) :
      /\ report.text[k] = " scanned, "
      /\ k + Len(Itoa(x)) + 1 <= Len(report.text)
      /\ SubSeq(report.text, k + 1, k + Len(Itoa(x))) = Itoa(x)
      /\ report.text[k + Len(Itoa(x)) + 1] \in {" muted, ", " muted", " spam, "}

\* C28: the error count never exceeds the number of Mute decisions and is zero
\* without the apply flag; the "muted" figure of a cycle's report is the number
\* of Mute decisions less the error count, is never negative, and with the apply
\* flag is the number of threads on which mark-read and mute both succeeded.
C28_MutedFigure ==
    /\ errCount <= Cardinality(MuteDecisions)
    /\ ~apply => errCount = 0
    /\ (CycleDone /\ Says(" scanned, ")) =>
         /\ ReportsMuted(Cardinality(MuteDecisions) - errCount)
         /\ \A x \in (0 - MaxNotifs - 1)..(MaxNotifs + 1) :
              ReportsMuted(x) =>
                /\ x >= 0
                /\ apply => x = Cardinality(FullyMuted)

\* A cycle with the apply flag made two Mute decisions, failed on one of them,
\* and reported one thread muted.
C28_Witness ==
    /\ apply /\ CycleDone
    /\ Cardinality(MuteDecisions) = 2
    /\ errCount = 1
    /\ Cardinality(FullyMuted) = 1
    /\ ReportsMuted(1)

SteadyThreadMuted ==
    /\ \E k \in 1..Len(mutLog) :
         mutLog[k] = [id |-> SteadyThread.id, op |-> "markRead", state |-> "ok"]
    /\ \E k \in 1..Len(mutLog) :
         mutLog[k] = [id |-> SteadyThread.id, op |-> "muteThread", state |-> "ok"]

\* C27: a daemon with the apply flag whose configuration lets the thread through
\* eventually marks read and mutes the team-only review request of a steady
\* inbox, of which at most one reviewer fetch or mark-read fails per cycle, also
\* when the server answers the later conditional fetches with "not modified".
C27_EventuallyMuted ==
    (apply /\ PassesOrgFilter(toNotification(SteadyThread), cfg)) => <>SteadyThreadMuted

\* At most two attempts per page, one request sequence (of at most two attempts)
\* per notification, and two mutation calls per Mute decision.
C29_Bounded ==
    /\ Len(http.sent) <= 2
    /\ pc = "list" => \A p \in 1..page : Times(pageLog, listURL(p)) <= 2
    /\ Len(fetchLog) <= idx /\ idx <= Len(notifications) + 1
    /\ \A i \in MuteDecisions : Len(CallsOn(decisions[i].Notification.ID)) <= 2

\* A cycle that has started ends in the wait between cycles.
C29_CycleEnds == (pc = "cycle" \/ InCycle) ~> (pc \in {"sleep", "exit"})

\* With a signal delivered the wait between cycles starts no further cycle.
C29_Step == (sig /\ pc = "sleep") => pc' \in {"sleep", "exit"}

\* With a signal delivered the daemon returns.
C29_Returns == sig ~> (pc = "exit")

\* C29: a cycle makes at most two attempts per page, one reviewer request
\* sequence per notification and two mutation calls per Mute decision, and it
\* ends; once a signal has been delivered the daemon returns, and it starts no
\* cycle after the one in flight.
C29_Termination ==
    []C29_Bounded /\ C29_CycleEnds /\ [][C29_Step]_vars /\ C29_Returns

====
